---- MODULE Spec2Model ----
(***************************************************************************)
(* Model of src/components/AudioVisualizer.vue: the audio-graph lifecycle  *)
(* (audioContext, analyser, the two source nodes), the requestAnimation-   *)
(* Frame render loop and the handlers that drive them (onMounted, the two  *)
(* watchers, onBeforeUnmount), together with the asynchronous             *)
(* continuations of startVisualization (await resume, await getUserMedia). *)
(*                                                                         *)
(* Everything runs on one event-loop thread.  One action is one task of    *)
(* the event loop (a handler, a promise settlement, an animation frame);   *)
(* continuations queued by one promise settlement are microtasks and run   *)
(* before any other task (variable ready).                                 *)
(***************************************************************************)
EXTENDS Integers, Naturals, FiniteSets, Sequences, TLC

\* Bound on the number of prop changes delivered by the parent component.
MaxEvents == 4

\* MediaStream handles the parent may pass as aiSpeech; "s0" has no audio track.
Streams == {"s0", "s1", "s2"}

\* props.aiSpeech.getAudioTracks().length
Tracks(stream) == IF stream = "s0" THEN 0 ELSE 1

VARIABLES
  phase,        \* component lifecycle: "setup", "mounted", "unmounted"
  events,       \* number of prop changes delivered so far
  g,            \* the props, the closure state of setup() and the platform resources
  lastEv,       \* history: the last lifecycle/prop event delivered
  everActive,   \* history: recording or aiSpeech has been active at some time
  stopsInRow,   \* history: consecutive stopVisualization calls (capped at 2)
  wasBoth       \* history: when the last prop event arrived no call was
                \* pending and both sources were connected

vars == <<phase, events, g, lastEv, everActive, stopsInRow, wasBoth>>

(***************************************************************************)
(* g is a record:                                                          *)
(*   recording             props.recording                                 *)
(*   aiSpeech              props.aiSpeech: "null" or a stream handle       *)
(*   canvas                canvas.value is non-null                        *)
(*   context2d             canvas.getContext('2d') returns a context on    *)
(*                         this platform (line 115)                        *)
(*   audioContext          "null", or the state of the referenced context: *)
(*                         "suspended" / "running"                         *)
(*   analyser, dataArray   the variable is non-null                        *)
(*   animationFrameId      "null", "pending" (the id of a callback that is *)
(*                         still scheduled) or "stale" (fired / cancelled) *)
(*   pendingFrames         number of scheduled drawVisual callbacks        *)
(*   frameNo               parity of the number of animation frames run    *)
(*   userMicrophoneSource  "null", "connected", "unconnected"              *)
(*   aiSpeechSource        "null", "connected", "disconnected"             *)
(*   micConnected          microphone source nodes connected to analyser   *)
(*   aiConnected           aiSpeech source nodes connected to analyser     *)
(*   awaitingResume        calls suspended at line 50 on the current ctx   *)
(*   awaitingClosed        calls suspended at line 50 on a closed context  *)
(*   ready                 continuations of line 50 queued as microtasks   *)
(*   awaitingGum           calls suspended at line 62                      *)
(*   opened, closed        AudioContexts constructed / close() calls       *)
(*   gumSinceStop          getUserMedia requests since the last stop       *)
(*   deniedSinceStop       a getUserMedia request was rejected since then  *)
(*   liveStreams           granted microphone streams whose tracks are live*)
(*   lastLog               console.error of the last step: "none", "mic",  *)
(*                         "noTrack"                                       *)
(*   aiReplaced            the last step disconnected a connected aiSpeech *)
(*                         source and connected a new one                  *)
(***************************************************************************)
InitG(rec, ai, c2d) ==
  [recording |-> rec, aiSpeech |-> ai, canvas |-> FALSE, context2d |-> c2d,
   audioContext |-> "null", analyser |-> FALSE,
   dataArray |-> FALSE, animationFrameId |-> "null", pendingFrames |-> 0,
   frameNo |-> 0,
   userMicrophoneSource |-> "null", aiSpeechSource |-> "null",
   micConnected |-> 0, aiConnected |-> 0,
   awaitingResume |-> 0, awaitingClosed |-> 0, ready |-> 0, awaitingGum |-> 0,
   opened |-> 0, closed |-> 0, gumSinceStop |-> 0, deniedSinceStop |-> FALSE,
   liveStreams |-> 0, lastLog |-> "none", aiReplaced |-> FALSE]

\* ---------------------------------------------------------------- draw
\* drawVisual, lines 120-158: one frame; reschedules itself unless it returns
\* early at line 121.
drawVisual(s) ==
  IF ~s.analyser \/ ~s.dataArray \/ ~s.canvas
  THEN s
  ELSE [s EXCEPT !.pendingFrames = @ + 1, !.animationFrameId = "pending"]

\* draw, lines 110-161: returns when the canvas or its 2d context is missing,
\* else makes a new drawVisual closure and calls it once.
draw(s) == IF ~s.canvas \/ ~s.context2d THEN s ELSE drawVisual(s)

\* ---------------------------------------------------- startVisualization
\* afterMic without lines 74-76: the previous aiSpeech source stays connected.
afterMic_keepOld(s) ==
  IF s.aiSpeech # "null"
  THEN IF Tracks(s.aiSpeech) = 0
       THEN [s EXCEPT !.lastLog = "noTrack"]
       ELSE IF s.audioContext = "null"
       THEN s
       ELSE IF ~s.analyser
       THEN [s EXCEPT !.aiSpeechSource = "disconnected"]
       ELSE draw([s EXCEPT !.aiSpeechSource = "connected",
                           !.aiConnected = @ + 1,
                           !.aiReplaced = (s.aiSpeechSource = "connected")])
  ELSE draw(s)

\* Lines 73-85, the synchronous tail of startVisualization: (re)attach the
\* aiSpeech stream, then draw().  A TypeError thrown here (a null audioContext
\* or a null analyser) is not caught: it ends the call.
afterMic(s) ==
  IF s.aiSpeech # "null"
  THEN LET s1 == IF s.aiSpeechSource = "connected"
                 THEN [s EXCEPT !.aiSpeechSource = "disconnected",
                                !.aiConnected = @ - 1]
                 ELSE s
       IN IF Tracks(s.aiSpeech) = 0
          THEN [s1 EXCEPT !.lastLog = "noTrack"]
          ELSE IF s1.audioContext = "null"
          THEN s1
          ELSE IF ~s1.analyser
          THEN [s1 EXCEPT !.aiSpeechSource = "disconnected"]
          ELSE draw([s1 EXCEPT !.aiSpeechSource = "connected",
                               !.aiConnected = @ + 1,
                               !.aiReplaced = (s.aiSpeechSource = "connected")])
  ELSE draw(s)

\* Lines 62-71 after getUserMedia resolved: the stream is live from now on;
\* createMediaStreamSource on a null audioContext and connect(null) throw a
\* TypeError that the catch at line 67 logs.
gumGranted(s) ==
  LET s0 == [s EXCEPT !.awaitingGum = @ - 1, !.liveStreams = @ + 1]
  IN IF s0.audioContext = "null"
     THEN [s0 EXCEPT !.lastLog = "mic"]
     ELSE IF ~s0.analyser
     THEN [s0 EXCEPT !.userMicrophoneSource = "unconnected", !.lastLog = "mic"]
     ELSE afterMic([s0 EXCEPT !.userMicrophoneSource = "connected",
                              !.micConnected = @ + 1])

\* Lines 62-70 after getUserMedia rejected.
gumDenied(s) ==
  [s EXCEPT !.awaitingGum = @ - 1, !.lastLog = "mic", !.deniedSinceStop = TRUE]

\* Lines 53-71 up to the await of getUserMedia.  Reached synchronously from
\* line 49 or as the continuation of line 50; in the continuation audioContext
\* may have been reset, and createAnalyser on null throws (uncaught).
afterResume(s) ==
  IF ~s.analyser /\ s.audioContext = "null"
  THEN s
  ELSE LET s1 == IF ~s.analyser
                 THEN [s EXCEPT !.analyser = TRUE, !.dataArray = TRUE]
                 ELSE s
       IN IF s1.recording /\ s1.userMicrophoneSource = "null"
          THEN [s1 EXCEPT !.awaitingGum = @ + 1, !.gumSinceStop = @ + 1]
          ELSE afterMic(s1)

\* Lines 40-51.  ctorOk: new AudioContext() returns (it throws otherwise and
\* the call ends); ctorState: the state the new context reports at line 49.
startVisualization(s, ctorOk, ctorState) ==
  IF ~s.canvas
  THEN s
  ELSE IF s.audioContext = "null" /\ ~ctorOk
  THEN s
  ELSE LET s1 == IF s.audioContext = "null"
                 THEN [s EXCEPT !.audioContext = ctorState, !.opened = @ + 1]
                 ELSE s
       IN IF s1.audioContext = "suspended"
          THEN [s1 EXCEPT !.awaitingResume = @ + 1]
          ELSE afterResume(s1)

\* ----------------------------------------------------- stopVisualization
\* stopVisualization without line 94: the closed context stays referenced.
stopVisualization_keepContext(s) ==
  [s EXCEPT
     !.pendingFrames = IF s.animationFrameId = "pending" THEN @ - 1 ELSE @,
     !.animationFrameId = IF @ = "pending" THEN "stale" ELSE @,
     !.closed = IF s.audioContext # "null" THEN @ + 1 ELSE @,
     !.userMicrophoneSource = "null",
     !.aiSpeechSource = "null",
     !.analyser = FALSE,
     !.micConnected = 0,
     !.aiConnected = 0,
     !.gumSinceStop = 0,
     !.deniedSinceStop = FALSE]

\* Lines 88-108.  cancelAnimationFrame only reaches the callback whose id is in
\* animationFrameId; the id is not reset.  Calls awaiting resume() of the
\* context that is closed here keep waiting on the closed context.
stopVisualization(s) ==
  [s EXCEPT
     !.pendingFrames = IF s.animationFrameId = "pending" THEN @ - 1 ELSE @,
     !.animationFrameId = IF @ = "pending" THEN "stale" ELSE @,
     !.closed = IF s.audioContext # "null" THEN @ + 1 ELSE @,
     !.audioContext = "null",
     !.awaitingClosed = @ + s.awaitingResume,
     !.awaitingResume = 0,
     !.userMicrophoneSource = "null",
     !.aiSpeechSource = "null",
     !.analyser = FALSE,
     !.micConnected = 0,
     !.aiConnected = 0,
     !.gumSinceStop = 0,
     !.deniedSinceStop = FALSE]

\* One animation frame: every callback scheduled before the frame runs once.
RECURSIVE runCallbacks(_, _)
runCallbacks(s, n) == IF n = 0 THEN s ELSE runCallbacks(drawVisual(s), n - 1)

animationFrame(s) ==
  runCallbacks([s EXCEPT !.pendingFrames = 0, !.frameNo = 1 - @,
                         !.animationFrameId = IF @ = "pending" THEN "stale" ELSE @],
               s.pendingFrames)

\* ------------------------------------------------------------------ actions
\* Every task starts with nothing logged yet.
Begin == [g EXCEPT !.lastLog = "none", !.aiReplaced = FALSE]

\* No continuation is queued as a microtask: the event loop takes a new task.
Idle == g.ready = 0

\* No startVisualization call is suspended at an await or queued to continue.
Settled ==
  /\ g.awaitingResume = 0 /\ g.awaitingClosed = 0
  /\ g.awaitingGum = 0 /\ g.ready = 0

BothAttached ==
  /\ Settled
  /\ g.userMicrophoneSource = "connected" /\ g.aiSpeechSource = "connected"

Init ==
  /\ phase = "setup"
  /\ events = 0
  /\ \E rec \in BOOLEAN, ai \in Streams \cup {"null"}, c2d \in BOOLEAN :
       /\ g = InitG(rec, ai, c2d)
       /\ everActive = (rec \/ ai # "null")
  /\ lastEv = "none"
  /\ stopsInRow = 0
  /\ wasBoth = FALSE

\* onMounted, lines 187-193: the template ref is set, then startVisualization.
Mount(ctorOk, ctorState) ==
  /\ phase = "setup"
  /\ phase' = "mounted"
  /\ g' = startVisualization([Begin EXCEPT !.canvas = TRUE], ctorOk, ctorState)
  /\ lastEv' = "mount"
  /\ stopsInRow' = 0
  /\ UNCHANGED <<events, everActive, wasBoth>>

\* watch(() => props.recording), lines 163-172.
SetRecording(newVal, ctorOk, ctorState) ==
  /\ phase = "mounted" /\ Idle /\ events < MaxEvents
  /\ newVal # g.recording
  /\ events' = events + 1
  /\ LET s == [Begin EXCEPT !.recording = newVal]
     IN g' = IF newVal THEN startVisualization(s, ctorOk, ctorState)
                       ELSE stopVisualization(s)
  /\ lastEv' = IF newVal THEN "recOn" ELSE "recOff"
  /\ everActive' = (everActive \/ newVal)
  /\ stopsInRow' = IF newVal THEN 0 ELSE IF stopsInRow = 0 THEN 1 ELSE 2
  /\ wasBoth' = BothAttached
  /\ UNCHANGED phase

\* watch(() => props.aiSpeech), lines 174-185.
SetAiSpeech(newStream, ctorOk, ctorState) ==
  /\ phase = "mounted" /\ Idle /\ events < MaxEvents
  /\ newStream # g.aiSpeech
  /\ events' = events + 1
  /\ LET s == [Begin EXCEPT !.aiSpeech = newStream]
     IN g' = IF newStream # "null" THEN startVisualization(s, ctorOk, ctorState)
             ELSE IF ~s.recording THEN stopVisualization(s)
             ELSE s
  /\ lastEv' = IF newStream = "null" THEN "extNone"
               ELSE IF g.aiSpeech = "null" THEN "extSet" ELSE "extReplace"
  /\ everActive' = (everActive \/ newStream # "null")
  /\ stopsInRow' = IF newStream = "null" /\ ~g.recording
                   THEN (IF stopsInRow = 0 THEN 1 ELSE 2)
                   ELSE 0
  /\ wasBoth' = BothAttached
  /\ UNCHANGED phase

\* onBeforeUnmount, lines 203-206, then the template ref is cleared.
Unmount ==
  /\ phase = "mounted" /\ Idle
  /\ phase' = "unmounted"
  /\ g' = [stopVisualization(Begin) EXCEPT !.canvas = FALSE]
  /\ lastEv' = "unmount"
  /\ stopsInRow' = IF stopsInRow = 0 THEN 1 ELSE 2
  /\ UNCHANGED <<events, everActive, wasBoth>>

\* The current context starts running (resume() took effect, or the platform
\* started it): every promise of line 50 on it resolves in this task, and the
\* continuations are queued as microtasks.
ContextRunning ==
  /\ Idle /\ g.audioContext = "suspended"
  /\ g' = [Begin EXCEPT !.audioContext = "running",
                        !.ready = g.awaitingResume, !.awaitingResume = 0]
  /\ stopsInRow' = 0
  /\ UNCHANGED <<phase, events, lastEv, everActive, wasBoth>>

\* resume() of the current context rejects: the call throws at line 50.
ResumeRejected ==
  /\ Idle /\ g.awaitingResume > 0
  /\ g' = [Begin EXCEPT !.awaitingResume = @ - 1]
  /\ stopsInRow' = 0
  /\ UNCHANGED <<phase, events, lastEv, everActive, wasBoth>>

\* A resume() promise of a context closed meanwhile settles: it resolves
\* (the resume had taken effect before close()) or rejects.
ClosedResumeSettles(resolved) ==
  /\ Idle /\ g.awaitingClosed > 0
  /\ g' = [Begin EXCEPT !.awaitingClosed = @ - 1,
                        !.ready = IF resolved THEN 1 ELSE 0]
  /\ stopsInRow' = 0
  /\ UNCHANGED <<phase, events, lastEv, everActive, wasBoth>>

\* Microtask: one startVisualization call continues after line 50.
Continue ==
  /\ g.ready > 0
  /\ g' = afterResume([Begin EXCEPT !.ready = @ - 1])
  /\ stopsInRow' = 0
  /\ UNCHANGED <<phase, events, lastEv, everActive, wasBoth>>

\* getUserMedia of one waiting call resolves with a stream.
GumGranted ==
  /\ Idle /\ g.awaitingGum > 0
  /\ g' = gumGranted(Begin)
  /\ stopsInRow' = 0
  /\ UNCHANGED <<phase, events, lastEv, everActive, wasBoth>>

\* getUserMedia of one waiting call rejects.
GumDenied ==
  /\ Idle /\ g.awaitingGum > 0
  /\ g' = gumDenied(Begin)
  /\ stopsInRow' = 0
  /\ UNCHANGED <<phase, events, lastEv, everActive, wasBoth>>

\* The browser runs the scheduled requestAnimationFrame callbacks.
Tick ==
  /\ Idle /\ g.pendingFrames > 0
  /\ g' = animationFrame(Begin)
  /\ stopsInRow' = 0
  /\ UNCHANGED <<phase, events, lastEv, everActive, wasBoth>>

CtorStates == {"suspended", "running"}

Next ==
  \/ \E ok \in BOOLEAN, st \in CtorStates : Mount(ok, st)
  \/ \E b \in BOOLEAN, ok \in BOOLEAN, st \in CtorStates : SetRecording(b, ok, st)
  \/ \E v \in Streams \cup {"null"}, ok \in BOOLEAN, st \in CtorStates :
       SetAiSpeech(v, ok, st)
  \/ Unmount
  \/ ContextRunning
  \/ ResumeRejected
  \/ \E r \in BOOLEAN : ClosedResumeSettles(r)
  \/ Continue
  \/ GumGranted
  \/ GumDenied
  \/ Tick

Spec == Init /\ [][Next]_vars

\* The browser keeps delivering animation frames, runs queued microtasks and
\* settles every getUserMedia request; resume() may stay pending for ever.
FairSpec ==
  /\ Spec
  /\ WF_vars(Tick)
  /\ WF_vars(Continue)
  /\ WF_vars(GumGranted \/ GumDenied)

\* ------------------------------------------------------------------ claims
SourceAttached == g.userMicrophoneSource # "null" \/ g.aiSpeechSource # "null"

\* C1: in every settled state a render frame is scheduled if and only if at
\* least one of userMicrophoneSource, aiSpeechSource is attached.
C1_FrameIffSource ==
  Settled => ((g.pendingFrames > 0) <=> SourceAttached)

\* C2: when recording goes true -> false while a valid aiSpeech stream is
\* present and attached, the audio context stays open, the aiSpeech source
\* stays attached and the render loop keeps running.
C2_ScenarioC ==
  [][(/\ phase = "mounted" /\ Settled
      /\ g.recording /\ ~g'.recording
      /\ g.aiSpeech # "null" /\ Tracks(g.aiSpeech) > 0
      /\ g.audioContext # "null" /\ g.aiSpeechSource = "connected"
      /\ g.pendingFrames > 0)
     => (/\ g'.audioContext # "null"
         /\ g'.aiSpeechSource = "connected"
         /\ g'.pendingFrames > 0)]_vars

\* C3: while neither recording nor aiSpeech has ever been active, no audio
\* context has been created and no render frame is scheduled.
C3_ScenarioA ==
  ~everActive => (g.opened = 0 /\ g.audioContext = "null" /\ g.pendingFrames = 0)

\* C4: as long as no getUserMedia request was rejected, at most one
\* microphone permission request is issued between two stopVisualization
\* calls, and at most one microphone source is connected to the analyser.
C4_MicAttachIdempotent ==
  /\ (~g.deniedSinceStop => g.gumSinceStop <= 1)
  /\ g.micConnected <= 1

\* C5: no granted microphone stream stays live while recording is false and
\* no microphone source owns it.
C5_NoOrphanStream ==
  (~g.recording /\ g.userMicrophoneSource = "null") => g.liveStreams = 0

\* C6: at most one frame callback chain is scheduled at any time.
C6_SingleFrameChain == g.pendingFrames <= 1

\* C7: from a settled state with recording = true and both sources connected,
\* after aiSpeech -> null followed by recording true -> false, no render frame
\* is scheduled any more and the audio context that was open has been closed
\* by exactly one close() call.
C7_ScenarioD ==
  [][(/\ phase = "mounted" /\ Settled
      /\ lastEv = "extNone" /\ wasBoth
      /\ g.recording /\ ~g'.recording
      /\ g.audioContext # "null")
     => (/\ g'.pendingFrames = 0
         /\ g'.audioContext = "null"
         /\ g'.closed = g.closed + 1
         /\ g'.closed = g'.opened)]_vars

\* C8: in every reachable state at most one aiSpeech source node is connected
\* to the analyser, and it is the one aiSpeechSource refers to.
C8_OneExternalSource ==
  g.aiConnected = (IF g.aiSpeechSource = "connected" THEN 1 ELSE 0)

\* C8 witness: a valid stream has just replaced another attached one.
C8_Witness ==
  lastEv = "extReplace" /\ g.aiReplaced /\ g.aiConnected = 1

\* C9: after startVisualization reported a stream without audio tracks, the
\* aiSpeech binding is unset (aiSpeechSource is null).
C9_NoTrackLeavesUnset ==
  g.lastLog = "noTrack" => g.aiSpeechSource = "null"

\* The closure state stopVisualization writes.
StopState(s) ==
  <<s.audioContext, s.analyser, s.userMicrophoneSource, s.aiSpeechSource,
    s.animationFrameId, s.pendingFrames, s.closed, s.micConnected,
    s.aiConnected>>

\* C10: stopVisualization on a component on which no context was ever created
\* changes nothing; a second stopVisualization right after a first changes
\* nothing; after it the context, the analyser and both bindings are absent.
C10_StopSafe ==
  [][/\ (stopsInRow' >= 1 /\ g.opened = 0) => StopState(g') = StopState(g)
     /\ stopsInRow' = 2 => StopState(g') = StopState(g)
     /\ stopsInRow' >= 1 => (/\ g'.audioContext = "null" /\ ~g'.analyser
                             /\ g'.userMicrophoneSource = "null"
                             /\ g'.aiSpeechSource = "null")]_vars

\* C10 witness: stopVisualization ran twice in a row on a component that
\* never created a context.
C10_Witness == stopsInRow = 2 /\ g.opened = 0

\* C11: when aiSpeech goes from an attached stream to null while recording
\* is true, aiSpeechSource is disconnected and cleared, and the microphone
\* binding, the audio context and the scheduled frames are left as they were.
C11_DetachExternal ==
  [][(/\ phase = "mounted" /\ Settled /\ g.recording
      /\ g.aiSpeech # "null" /\ g'.aiSpeech = "null"
      /\ g.aiSpeechSource = "connected")
     => (/\ g'.aiSpeechSource = "null" /\ g'.aiConnected = 0
         /\ g'.userMicrophoneSource = g.userMicrophoneSource
         /\ g'.audioContext = g.audioContext
         /\ g'.pendingFrames = g.pendingFrames)]_vars

\* C12: once onBeforeUnmount has run, the audio context, the analyser and
\* both bindings are absent and no frame is scheduled, also after every
\* startVisualization call that was pending at unmount has completed.
C12_UnmountFinal ==
  phase = "unmounted" =>
    /\ g.audioContext = "null" /\ ~g.analyser
    /\ g.userMicrophoneSource = "null" /\ g.aiSpeechSource = "null"
    /\ g.pendingFrames = 0

\* C13: a rejected getUserMedia creates no microphone binding, and when it
\* leaves no source attached and no other call pending, the audio context and
\* the analyser do not remain allocated.
C13_DenialLeavesNothing ==
  [][GumDenied =>
       /\ g'.userMicrophoneSource = g.userMicrophoneSource
       /\ g'.micConnected = g.micConnected
       /\ (/\ g'.userMicrophoneSource = "null" /\ g'.aiSpeechSource = "null"
           /\ g'.awaitingGum = 0 /\ g'.awaitingResume = 0 /\ g'.awaitingClosed = 0)
          => (g'.audioContext = "null" /\ ~g'.analyser)]_vars

\* C14: in every reachable state the audio context is non-null if and only if
\* a source binding exists or a startVisualization call is in progress.
C14_ContextIffSourceOrPending ==
  (g.audioContext # "null") <=> (SourceAttached \/ ~Settled)

\* C15: right after stopVisualization has run, no requestAnimationFrame
\* callback of the component is pending.
C15_StopLeavesNoFrame ==
  [][stopsInRow' >= 1 => g'.pendingFrames = 0]_vars

\* C16: if from some point on recording is false and aiSpeech is null, then
\* from some point on no frame is scheduled; and a frame that runs while a
\* source is connected to the analyser and the canvas is there schedules the
\* next one.
C16_LoopTracksSources ==
  /\ <>[](~g.recording /\ g.aiSpeech = "null") => <>[](g.pendingFrames = 0)
  /\ [][(Tick /\ (g.micConnected > 0 \/ g.aiConnected > 0) /\ g.canvas)
          => g'.pendingFrames > 0]_vars

\* C17: a drawing surface that is unavailable (no canvas, or no 2d context)
\* while a source is connected does not end the loop: once the calls have
\* settled a frame is scheduled, so that drawing resumes with the surface.
C17_SurfaceFailureKeepsLoop ==
  (/\ phase = "mounted" /\ Settled
   /\ (g.micConnected > 0 \/ g.aiConnected > 0)
   /\ ~(g.canvas /\ g.context2d))
  => g.pendingFrames > 0

\* C18: when getUserMedia rejects while recording is true and a stream with
\* an audio track is present, then once no call is pending the aiSpeech
\* source is connected and a frame is scheduled.
C18_DenialKeepsExternal ==
  [][(/\ GumDenied /\ phase = "mounted"
      /\ g.recording /\ g.aiSpeech # "null" /\ Tracks(g.aiSpeech) > 0
      /\ g.canvas /\ g.context2d
      /\ g'.awaitingGum = 0 /\ g'.awaitingResume = 0 /\ g'.awaitingClosed = 0)
     => (g'.aiSpeechSource = "connected" /\ g'.pendingFrames > 0)]_vars

\* C19: in every reachable state the analyser is non-null if and only if the
\* audio context is non-null.
C19_AnalyserIffContext ==
  g.analyser <=> (g.audioContext # "null")

\* C20: a non-null source binding implies that the audio context and the
\* analyser are both non-null.
C20_BindingImpliesGraph ==
  SourceAttached => (g.audioContext # "null" /\ g.analyser)

====
